---- MODULE Spec2Model ----
(***************************************************************************)
(* Model of the R4R (review-for-review) analyzer: the ReviewAnalysis       *)
(* island (scorer r4rScoreDetails, stats, pairer reviewPairs, the fetch /  *)
(* delayed-save effect), the save-analysis endpoint, the leaderboard store *)
(* and the batch calculator.                                               *)
(*                                                                         *)
(* Units.  Instants are whole seconds counted from the instant of the      *)
(* oldest record of the inputs (Date.getTime() / 1000 - offset).  Scores   *)
(* are exact rationals <<num, den>>; multipliers are in twentieths         *)
(* (1.05 = 21/20, 1.4 = 28/20).  IEEE rounding of the products is not      *)
(* modelled: Math.round is applied to the exact value.                     *)
(***************************************************************************)
EXTENDS Integers, Sequences, FiniteSets, TLC

\* ------------------------------------------------------------------- state
\* givenReviews, receivedReviews, userR4rScores: the signals of the island on
\*       the page (of the engine's inputs in SpecEngine)
\* now: the clock (Date.now(), in seconds)
\* analysis: the results of the last two invocations of the engine, latest first
\* calc: the score breakdown last evaluated on counts given directly
\* selectedUser, isLoading, error: the props and the other signals of the
\*       island on the page
\* runs: the instances of the island mounted so far, each with its props, its
\*       signals and the outcome of the fetches of its fetchReviews effect
\* timers: the runs whose setTimeout(saveAnalysisToDatabase, 100) is pending
\* saves: the saveAnalysisToDatabase calls waiting for the Ethos score and XP
\* posts: the requests to /api/save-analysis in flight
\* lookups: the instances whose loadR4rScores call is in flight
\* leaderboard: the rows of leaderboard_entries
\* sent: the analyses (a run of the island, a slot of the batch) that called
\*       the leaderboard sink
\* batch: the POST /api/calculate-r4r-batch request being served
\* scheduler: the JobScheduler (its job objects, its jobs and timers maps) and
\*            the last call of runJob
VARIABLES givenReviews, receivedReviews, userR4rScores, now, analysis, calc,
          selectedUser, isLoading, error, runs, timers, saves, posts, lookups,
          leaderboard, sent, batch, scheduler

vars == <<givenReviews, receivedReviews, userR4rScores, now, analysis, calc,
          selectedUser, isLoading, error, runs, timers, saves, posts, lookups,
          leaderboard, sent, batch, scheduler>>

\* ------------------------------------------------------------------ bounds
MaxGiven == 2
MaxReceived == 2
MaxCopies == 4
\* the analyses started in all: runs of the island's effect plus userkeys
\* processed by the batch request
MaxAnalyses == 2
\* the scheduleJob calls made on the scheduler
MaxScheduled == 3

\* ------------------------------------------------------- JavaScript values
\* Date.getTime() of an Invalid Date, and every arithmetic result on it.
NaN == -1
\* the JavaScript value undefined in a numeric slot
Undefined == -2
\* an absent or empty string field
None == "none"
\* the message fetchReviews puts in the error signal
LoadError == "Failed to load review data. Please try again."

IsNaN(x) == x = NaN

Min(a, b) == IF a <= b THEN a ELSE b
Max(a, b) == IF a >= b THEN a ELSE b
Abs(x) == IF x < 0 THEN 0 - x ELSE x

SecondsPerDay == 86400

\* ------------------------------------------------------------ input records
Subject == "subj"

Usernames == {"alice", "bob", "carol", "farmer", "nobody", "other", Subject, "viewer"}

\* Display names; CollationRank is the order String.localeCompare gives them
\* ("alice" < "Bob" < "Carol" < "Farmer" < "nobody" < "Other" < "subject" <
\* "Viewer": case-insensitive at first level).
NameOf == [u \in Usernames |->
             CASE u = "alice" -> "alice"
               [] u = "bob" -> "Bob"
               [] u = "carol" -> "Carol"
               [] u = "farmer" -> "Farmer"
               [] u = "nobody" -> "nobody"
               [] u = "other" -> "Other"
               [] u = "viewer" -> "Viewer"
               [] OTHER -> "subject"]

CollationRank == [n \in {"alice", "Bob", "Carol", "Farmer", "nobody", "Other", "subject",
                         "Viewer"} |->
             CASE n = "alice" -> 1
               [] n = "Bob" -> 2
               [] n = "Carol" -> 3
               [] n = "Farmer" -> 4
               [] n = "nobody" -> 5
               [] n = "Other" -> 6
               [] n = "Viewer" -> 8
               [] OTHER -> 7]

UserkeyOf == [u \in Usernames |->
             CASE u = "alice" -> "profileId:1"
               [] u = "bob" -> "profileId:2"
               [] u = "carol" -> "profileId:3"
               [] u = "nobody" -> "profileId:4"
               [] u = "other" -> "profileId:5"
               [] u = "farmer" -> "profileId:7"
               [] u = "viewer" -> "profileId:8"
               [] OTHER -> "profileId:6"]

User(u) == [userkey |-> UserkeyOf[u], username |-> u, name |-> NameOf[u]]

\* raw timestamps as the upstream API sends them
Iso(s) == [fmt |-> "iso", digits |-> 0, val |-> s]
\* 10-digit Unix seconds; val is the offset in seconds
UnixSec(s) == [fmt |-> "unix", digits |-> 10, val |-> s]
\* 13-digit Unix milliseconds; val is the offset in milliseconds
UnixMs(ms) == [fmt |-> "unix", digits |-> 13, val |-> ms]
\* a string Date cannot parse
BadTs == [fmt |-> "bad", digits |-> 0, val |-> 0]

\* EthosActivity
Activity(author, subject, ds, cr, ts, arch) ==
  [author |-> User(author), subject |-> User(subject), dataScore |-> ds,
   contentRating |-> cr, timestamp |-> ts, createdAt |-> ts, archived |-> arch]

Given(cp, ds, cr, ts, arch) == Activity(Subject, cp, ds, cr, ts, arch)
Received(cp, ds, cr, ts, arch) == Activity(cp, Subject, ds, cr, ts, arch)

GivenRecs ==
  { Given("alice", "positive", None, Iso(0), FALSE),
    Given("bob", None, "positive", UnixSec(0), FALSE),
    Given("alice", "negative", "positive", Iso(30), FALSE),
    Given("alice", "positive", None, Iso(0), TRUE) }

ReceivedRecs ==
  { Received("alice", "positive", None, Iso(1797), FALSE),
    Received("alice", None, "positive", UnixMs(1798000), FALSE),
    Received("bob", "positive", None, BadTs, FALSE),
    Received("alice", "negative", None, UnixSec(1800), FALSE),
    Received("carol", None, None, Iso(5), FALSE),
    Received("bob", "positive", None, Iso(1), TRUE),
    Received("bob", "Positive", "positive", Iso(3), FALSE) }

\* the sequences of at most n different elements of S
SeqsUpTo(S, n) ==
  { s \in UNION { [1..k -> S] : k \in 0..n } :
      \A i, j \in DOMAIN s : i # j => s[i] # s[j] }

RECURSIVE Repeat(_, _)
Repeat(s, k) == IF k = 0 THEN <<>> ELSE s \o Repeat(s, k - 1)

Copies == {1, MaxCopies}

\* the instants at which the scorer is invoked: one day and one hundred days
\* after the oldest record
Nows == <<SecondsPerDay, 100 * SecondsPerDay>>

\* ------------------------------------------------------------ the scorer
\* givenReview.data?.score || givenReview.content?.rating
Rating(r) == IF r.dataScore # None THEN r.dataScore ELSE r.contentRating

\* Date.getTime() of the parsed timestamp, in seconds
parseTimestamp(ts) ==
  IF ts.fmt = "bad" THEN NaN
  ELSE IF ts.fmt = "iso" THEN ts.val
  ELSE IF ts.digits = 10 THEN ts.val
  ELSE ts.val \div 1000

\* stream.filter(r => !r.archived)
NonArchived(stream) == SelectSeq(stream, LAMBDA r : ~r.archived)

\* received.find(r => r.author.username === targetUsername): index, 0 if none
FindReceived(received, targetUsername) ==
  LET S == { i \in 1..Len(received) : received[i].author.username = targetUsername }
  IN IF S = {} THEN 0 ELSE CHOOSE i \in S : \A j \in S : i <= j

\* mutant: a rating that is not a known non-positive one passes for positive
BothPositiveOrUnknown(givenRating, receivedRating) ==
  /\ givenRating \notin {"neutral", "negative"}
  /\ receivedRating \notin {"neutral", "negative"}

BothPositive(givenRating, receivedRating) ==
  givenRating = "positive" /\ receivedRating = "positive"

\* Math.abs(givenDate.getTime() - receivedDate.getTime()), in seconds
TimeDiff(givenTs, receivedTs) ==
  LET g == parseTimestamp(givenTs)
      r == parseTimestamp(receivedTs)
  IN IF IsNaN(g) \/ IsNaN(r) THEN NaN ELSE Abs(g - r)

\* timeDiff < 0.0208 with timeDiff in days: 0.0208 = QuickNum / QuickDen
QuickNum == 208
QuickDen == 10000
IsQuick(diff) ==
  ~IsNaN(diff) /\ diff # Undefined /\ diff * QuickDen < QuickNum * SecondsPerDay

\* indices of the given records counted by reciprocalCount++
ReciprocalIndices(given, received) ==
  { i \in 1..Len(given) :
      LET m == FindReceived(received, given[i].subject.username)
      IN m # 0 /\ BothPositive(Rating(given[i]), Rating(received[m])) }

reciprocalCount(given, received) == Cardinality(ReciprocalIndices(given, received))

\* mutant: timing is analysed for every two-sided match, whatever the ratings
QuickIndicesAnyRating(given, received) ==
  { i \in 1..Len(given) :
      LET m == FindReceived(received, given[i].subject.username)
      IN m # 0 /\ IsQuick(TimeDiff(given[i].timestamp, received[m].timestamp)) }

\* indices of the given records counted by quickReciprocations++
QuickIndices(given, received) ==
  { i \in ReciprocalIndices(given, received) :
      LET m == FindReceived(received, given[i].subject.username)
      IN IsQuick(TimeDiff(given[i].timestamp, received[m].timestamp)) }

quickReciprocations(given, received) == Cardinality(QuickIndices(given, received))

\* mutant: the cap of the base score is forgotten
baseScoreUncapped(R, N) == <<100 * R, N>>

\* Math.min((reciprocalCount / received.length) * 100, 65), as <<num, den>>
BaseCap == 65
baseScore(R, N) == <<Min(100 * R, BaseCap * N), N>>

\* mutant: the boundaries of the volume tiers are exclusive
volumeMultiplierExclusive(R) ==
  IF R > 50 THEN 24 ELSE IF R > 20 THEN 23 ELSE IF R > 10 THEN 21 ELSE 20

\* in twentieths
volumeMultiplier(R) ==
  IF R >= 50 THEN 24 ELSE IF R >= 20 THEN 23 ELSE IF R >= 10 THEN 21 ELSE 20

\* Math.min(...timestamps): NaN as soon as one timestamp is invalid
EarliestReview(allReviews) ==
  LET T == { parseTimestamp(allReviews[i].timestamp) : i \in 1..Len(allReviews) }
  IN IF NaN \in T THEN NaN ELSE CHOOSE t \in T : \A u \in T : t <= u

\* (Date.now() - earliestReview), in seconds
accountAge(allReviews, nowv) ==
  LET e == EarliestReview(allReviews)
  IN IF IsNaN(e) THEN NaN ELSE nowv - e

\* reviewsPerDay > k, reviewsPerDay = totalReviews / Math.max(accountAgeDays, 1)
ReviewsPerDayAbove(totalReviews, age, k) ==
  ~IsNaN(age) /\ totalReviews * SecondsPerDay > k * Max(age, SecondsPerDay)

\* accountAgeDays < d
AgeBelow(age, d) == ~IsNaN(age) /\ age < d * SecondsPerDay

\* mutant: the age bounds of the tiers are inclusive
accountAgeMultiplierInclusive(totalReviews, age) ==
  IF ReviewsPerDayAbove(totalReviews, age, 10) /\ (AgeBelow(age, 30) \/ age = 30 * SecondsPerDay) THEN 28
  ELSE IF ReviewsPerDayAbove(totalReviews, age, 5) /\ (AgeBelow(age, 60) \/ age = 60 * SecondsPerDay) THEN 25
  ELSE IF ReviewsPerDayAbove(totalReviews, age, 2) /\ (AgeBelow(age, 90) \/ age = 90 * SecondsPerDay) THEN 22
  ELSE 20

\* in twentieths
accountAgeMultiplier(totalReviews, age) ==
  IF ReviewsPerDayAbove(totalReviews, age, 10) /\ AgeBelow(age, 30) THEN 28
  ELSE IF ReviewsPerDayAbove(totalReviews, age, 5) /\ AgeBelow(age, 60) THEN 25
  ELSE IF ReviewsPerDayAbove(totalReviews, age, 2) /\ AgeBelow(age, 90) THEN 22
  ELSE 20

\* suspiciousRatio >= tenths / 10, suspiciousRatio = R > 0 ? Q / R : 0
RatioAtLeast(Q, R, tenths) ==
  IF R > 0 THEN 10 * Q >= tenths * R ELSE 0 >= tenths

\* mutant: the minimum quick counts are not tested
timePenaltyRatioOnly(Q, R) ==
  IF RatioAtLeast(Q, R, 8) THEN <<10 * R + 5 * Q, R>>
  ELSE IF RatioAtLeast(Q, R, 6) THEN <<8 * R + 4 * Q, R>>
  ELSE IF RatioAtLeast(Q, R, 4) THEN <<5 * R + 3 * Q, R>>
  ELSE IF RatioAtLeast(Q, R, 2) THEN <<2 * R + 2 * Q, R>>
  ELSE <<0, 1>>

\* mutant: the tiers are tried from the lowest ratio up
timePenaltyLowestFirst(Q, R) ==
  IF RatioAtLeast(Q, R, 2) /\ Q >= 2 THEN <<2 * R + 2 * Q, R>>
  ELSE IF RatioAtLeast(Q, R, 4) /\ Q >= 2 THEN <<5 * R + 3 * Q, R>>
  ELSE IF RatioAtLeast(Q, R, 6) /\ Q >= 3 THEN <<8 * R + 4 * Q, R>>
  ELSE IF RatioAtLeast(Q, R, 8) /\ Q >= 3 THEN <<10 * R + 5 * Q, R>>
  ELSE <<0, 1>>

\* as <<num, den>>
timePenalty(Q, R) ==
  IF RatioAtLeast(Q, R, 8) /\ Q >= 3 THEN <<10 * R + 5 * Q, R>>
  ELSE IF RatioAtLeast(Q, R, 6) /\ Q >= 3 THEN <<8 * R + 4 * Q, R>>
  ELSE IF RatioAtLeast(Q, R, 4) /\ Q >= 2 THEN <<5 * R + 3 * Q, R>>
  ELSE IF RatioAtLeast(Q, R, 2) /\ Q >= 2 THEN <<2 * R + 2 * Q, R>>
  ELSE <<0, 1>>

\* Math.round of the non-negative rational q
Round(q) == (2 * q[1] + q[2]) \div (2 * q[2])

RatAdd(p, q) == <<p[1] * q[2] + q[1] * p[2], p[2] * q[2]>>
RatIsZero(q) == q[1] = 0
RatPositive(q) == q[1] > 0

\* mutant: the cap at 100 is forgotten
finalScoreUncapped(adjustedScore) == Round(adjustedScore)

\* Math.min(Math.round(adjustedScore), 100)
finalScoreOf(adjustedScore) == Min(Round(adjustedScore), 100)

\* mutant: the time penalty is waived for accounts of 90 days and more
ScoredDetailsPenaltyByAge(given, received, nowv) ==
  LET R == reciprocalCount(given, received)
      base == baseScore(R, Len(received))
      Q == quickReciprocations(given, received)
      totalReviews == Len(given) + Len(received)
      vm == volumeMultiplier(R)
      age == accountAge(given \o received, nowv)
      am == accountAgeMultiplier(totalReviews, age)
      sam == <<base[1] * vm * am, base[2] * 400>>
      tp == IF AgeBelow(age, 90) THEN timePenalty(Q, R) ELSE <<0, 1>>
  IN [baseScore |-> base, volumeMultiplier |-> vm,
      accountAgeMultiplier |-> am, accountAge |-> age,
      scoreAfterMultipliers |-> sam, timePenalty |-> tp,
      quickReciprocations |-> Q,
      suspiciousRatio |-> IF R > 0 THEN <<Q, R>> ELSE <<0, 1>>,
      finalScore |-> finalScoreOf(RatAdd(sam, tp))]

\* mutant: scoreAfterMultipliers is the adjusted score, penalty included
ScoreFromCountsPenaltyIncluded(R, N, Q, totalReviews, age) ==
  LET base == baseScore(R, N)
      vm == volumeMultiplier(R)
      am == accountAgeMultiplier(totalReviews, age)
      sam == <<base[1] * vm * am, base[2] * 400>>
      tp == timePenalty(Q, R)
  IN [baseScore |-> base, volumeMultiplier |-> vm,
      accountAgeMultiplier |-> am, accountAge |-> age,
      scoreAfterMultipliers |-> RatAdd(sam, tp), timePenalty |-> tp,
      quickReciprocations |-> Q,
      suspiciousRatio |-> IF R > 0 THEN <<Q, R>> ELSE <<0, 1>>,
      finalScore |-> finalScoreOf(RatAdd(sam, tp))]

\* the stages of the score once the records are counted: R reciprocal,
\* N received, Q quick, totalReviews = given + received, age in seconds
ScoreFromCounts(R, N, Q, totalReviews, age) ==
  LET base == baseScore(R, N)
      vm == volumeMultiplier(R)
      am == accountAgeMultiplier(totalReviews, age)
      sam == <<base[1] * vm * am, base[2] * 400>>
      tp == timePenalty(Q, R)
  IN [baseScore |-> base, volumeMultiplier |-> vm,
      accountAgeMultiplier |-> am, accountAge |-> age,
      scoreAfterMultipliers |-> sam, timePenalty |-> tp,
      quickReciprocations |-> Q,
      suspiciousRatio |-> IF R > 0 THEN <<Q, R>> ELSE <<0, 1>>,
      finalScore |-> finalScoreOf(RatAdd(sam, tp))]

\* the branch of r4rScoreDetails taken when received.length > 0
ScoredDetails(given, received, nowv) ==
  ScoreFromCounts(reciprocalCount(given, received), Len(received),
                  quickReciprocations(given, received),
                  Len(given) + Len(received),
                  accountAge(given \o received, nowv))

\* the branch of r4rScoreDetails taken when nothing was received
ZeroDetails ==
  [baseScore |-> <<0, 1>>, volumeMultiplier |-> 20,
   accountAgeMultiplier |-> 20, accountAge |-> 0,
   scoreAfterMultipliers |-> <<0, 1>>, timePenalty |-> <<0, 1>>,
   quickReciprocations |-> 0, suspiciousRatio |-> <<0, 1>>,
   finalScore |-> 0]

\* mutant: received.length is not tested, 0 / 0 makes the scores NaN
r4rScoreDetailsUnguarded(givenAll, receivedAll, nowv) ==
  LET given == NonArchived(givenAll)
      received == NonArchived(receivedAll)
  IN IF Len(received) > 0 THEN ScoredDetails(given, received, nowv)
     ELSE [ZeroDetails EXCEPT !.baseScore = <<NaN, 1>>,
                              !.scoreAfterMultipliers = <<NaN, 1>>,
                              !.finalScore = NaN]

\* the value of the computed signal r4rScoreDetails at the instant nowv
r4rScoreDetails(givenAll, receivedAll, nowv) ==
  LET given == NonArchived(givenAll)
      received == NonArchived(receivedAll)
  IN IF Len(received) > 0 THEN ScoredDetails(given, received, nowv)
     ELSE ZeroDetails

\* the value of the computed signal stats
stats(givenAll, receivedAll, nowv) ==
  LET given == NonArchived(givenAll)
      received == NonArchived(receivedAll)
  IN [given |-> Len(given), received |-> Len(received),
      reciprocal |-> reciprocalCount(given, received),
      r4rScore |-> r4rScoreDetails(givenAll, receivedAll, nowv).finalScore]

\* the risk label shown with the score and stored with a saved entry
riskLevel(score) ==
  IF score >= 70 THEN "high" ELSE IF score >= 40 THEN "moderate" ELSE "low"

\* ------------------------------------------------------------ the pairer
\* r4rScoreCache.get(username): the cache is a function on the cached names
CacheGet(cache, username) ==
  IF username \in DOMAIN cache THEN cache[username] ELSE Undefined

\* userMap.has(key); userMap is the sequence of its values in insertion order
MapHas(userMap, key) == \E i \in 1..Len(userMap) : userMap[i].username = key
MapIndex(userMap, key) == CHOOSE i \in 1..Len(userMap) : userMap[i].username = key

\* an optional review is a sequence of zero or one activity
GivenOnlyPair(givenReview, cache) ==
  [username |-> givenReview.subject.username, name |-> givenReview.subject.name,
   givenReview |-> <<givenReview>>, receivedReview |-> <<>>,
   isReciprocal |-> FALSE, timeDifference |-> Undefined,
   r4rScore |-> CacheGet(cache, givenReview.subject.username)]

ReceivedOnlyPair(receivedReview, cache) ==
  [username |-> receivedReview.author.username, name |-> receivedReview.author.name,
   givenReview |-> <<>>, receivedReview |-> <<receivedReview>>,
   isReciprocal |-> FALSE, timeDifference |-> Undefined,
   r4rScore |-> CacheGet(cache, receivedReview.author.username)]

\* mutant: the userMap.has test is dropped
AddGivenAlways(userMap, givenReview, cache) ==
  Append(userMap, GivenOnlyPair(givenReview, cache))

\* one iteration of the forEach over the given reviews
AddGiven(userMap, givenReview, cache) ==
  IF MapHas(userMap, givenReview.subject.username) THEN userMap
  ELSE Append(userMap, GivenOnlyPair(givenReview, cache))

\* mutant: any two-sided pair is reciprocal, whatever the ratings
UpdateExistingAnyRating(existing, receivedReview) ==
  [existing EXCEPT
     !.receivedReview = <<receivedReview>>,
     !.isReciprocal = existing.givenReview # <<>>,
     !.timeDifference =
        IF existing.givenReview = <<>> THEN existing.timeDifference
        ELSE TimeDiff(existing.givenReview[1].timestamp, receivedReview.timestamp)]

\* the branch of the received forEach that updates an existing entry
UpdateExisting(existing, receivedReview) ==
  LET givenRating == IF existing.givenReview = <<>> THEN None
                     ELSE Rating(existing.givenReview[1])
  IN [existing EXCEPT
        !.receivedReview = <<receivedReview>>,
        !.isReciprocal = BothPositive(givenRating, Rating(receivedReview)),
        !.timeDifference =
           IF existing.givenReview = <<>> THEN existing.timeDifference
           ELSE TimeDiff(existing.givenReview[1].timestamp, receivedReview.timestamp)]

\* one iteration of the forEach over the received reviews
AddReceived(userMap, receivedReview, cache) ==
  LET fromUsername == receivedReview.author.username
  IN IF MapHas(userMap, fromUsername)
     THEN LET k == MapIndex(userMap, fromUsername)
          IN [userMap EXCEPT ![k] = UpdateExisting(userMap[k], receivedReview)]
     ELSE Append(userMap, ReceivedOnlyPair(receivedReview, cache))

RECURSIVE ForEachGiven(_, _, _, _)
ForEachGiven(userMap, given, i, cache) ==
  IF i > Len(given) THEN userMap
  ELSE ForEachGiven(AddGiven(userMap, given[i], cache), given, i + 1, cache)

RECURSIVE ForEachReceived(_, _, _, _)
ForEachReceived(userMap, received, i, cache) ==
  IF i > Len(received) THEN userMap
  ELSE ForEachReceived(AddReceived(userMap, received[i], cache), received, i + 1, cache)

\* a.name.localeCompare(b.name)
localeCompare(a, b) ==
  IF CollationRank[a] < CollationRank[b] THEN -1
  ELSE IF CollationRank[a] > CollationRank[b] THEN 1 ELSE 0

\* mutant: the comparator looks at the names only
ComparePairsByName(a, b) == localeCompare(a.name, b.name)

\* the comparator given to result.sort
ComparePairs(a, b) ==
  IF a.isReciprocal /\ ~b.isReciprocal THEN -1
  ELSE IF ~a.isReciprocal /\ b.isReciprocal THEN 1
  ELSE localeCompare(a.name, b.name)

\* Array.prototype.sort is stable: insert p after the last element not above it
RECURSIVE InsertSorted(_, _)
InsertSorted(sorted, p) ==
  IF sorted = <<>> THEN <<p>>
  ELSE IF ComparePairs(sorted[Len(sorted)], p) <= 0 THEN Append(sorted, p)
  ELSE Append(InsertSorted(SubSeq(sorted, 1, Len(sorted) - 1), p), sorted[Len(sorted)])

RECURSIVE SortPairs(_)
SortPairs(s) ==
  IF s = <<>> THEN <<>>
  ELSE InsertSorted(SortPairs(SubSeq(s, 1, Len(s) - 1)), s[Len(s)])

\* the value of the computed signal reviewPairs
\* mutant: the pairer walks the archived records too
reviewPairsWithArchived(givenAll, receivedAll, cache) ==
  LET afterGiven == ForEachGiven(<<>>, givenAll, 1, cache)
      userMap == ForEachReceived(afterGiven, receivedAll, 1, cache)
  IN SortPairs(userMap)

reviewPairs(givenAll, receivedAll, cache) ==
  LET afterGiven == ForEachGiven(<<>>, NonArchived(givenAll), 1, cache)
      userMap == ForEachReceived(afterGiven, NonArchived(receivedAll), 1, cache)
  IN SortPairs(userMap)

\* ----------------------------------------------------- the computed signals

\* one invocation of the scorer and the pairer on the loaded streams, as a
\* render of the island reads r4rScoreDetails, stats and reviewPairs
AnalysisAt(nowv) ==
  [at |-> nowv,
   details |-> r4rScoreDetails(givenReviews, receivedReviews, nowv),
   stats |-> stats(givenReviews, receivedReviews, nowv),
   pairs |-> reviewPairs(givenReviews, receivedReviews, userR4rScores)]

\* the default of limit, the cap on it and the size of a chunk of the batch
\* endpoint
DefaultLimit == 50
MaxLimit == 100
chunkSize == 5

\* the batch endpoint before a request
IdleBatch ==
  [pc |-> "idle", limit |-> DefaultLimit, limitedUserkeys |-> <<>>, i |-> 0,
   slots |-> <<>>,
   results |-> <<>>, errors |-> <<>>, processed |-> 0, response |-> <<>>]

\* ------------------------------------------------------- the job scheduler
\* the ids of the default jobs
JobIds == {"r4r-batch-6h", "r4r-priority-1h"}

\* a new JobScheduler: no job object was created, both maps are empty
IdleScheduler == [objects |-> <<>>, jobs |-> <<>>, timers |-> {}, last |-> <<>>]

\* this.jobs.get(id): the job object the jobs map holds for id, 0 for none
JobOf(sch, id) ==
  IF \E i \in DOMAIN sch.jobs : sch.jobs[i].id = id
  THEN (CHOOSE i \in DOMAIN sch.jobs : sch.jobs[i].id = id)
  ELSE 0

JobObject(sch, id) == sch.jobs[JobOf(sch, id)].object

\* this.jobs.delete(id)
JobsDelete(jobs, id) == SelectSeq(jobs, LAMBDA e : e.id # id)

\* clearJob(id): the interval of id is cleared, its job leaves the jobs map;
\* the job object itself is left as it is
clearJobOf(sch, id) ==
  [sch EXCEPT !.timers = @ \ {id}, !.jobs = JobsDelete(@, id)]

\* the handler executions in progress for id: runJob sets isRunning of the
\* job object it read before it calls the handler, and resets it when the
\* handler has settled
Executions(sch, id) ==
  { o \in DOMAIN sch.objects : sch.objects[o].id = id /\ sch.objects[o].isRunning }

\* scheduleJob(id, name, intervalMs, handler)
scheduleJob(id) ==
  /\ Len(scheduler.objects) < MaxScheduled
  /\ LET cleared == clearJobOf(scheduler, id)
         job == [id |-> id, isRunning |-> FALSE]
     IN scheduler' =
          [cleared EXCEPT !.objects = Append(@, job),
                          !.jobs = Append(@, [id |-> id, object |-> Len(cleared.objects) + 1]),
                          !.timers = @ \cup {id}]
  /\ UNCHANGED <<givenReviews, receivedReviews, userR4rScores, now, analysis, calc,
                 selectedUser, isLoading, error, runs, timers, saves, posts, lookups,
                 leaderboard, sent, batch>>

\* clearJob(id)
clearJob(id) ==
  /\ scheduler' = clearJobOf(scheduler, id)
  /\ UNCHANGED <<givenReviews, receivedReviews, userR4rScores, now, analysis, calc,
                 selectedUser, isLoading, error, runs, timers, saves, posts, lookups,
                 leaderboard, sent, batch>>

\* runJob(id) up to its await of the handler: false for an id without a job
\* and for a job object that is running, else the handler is invoked.  The
\* call is recorded with the executions of id in progress when it was made.
runJobOf(sch, id) ==
  LET inProgress == Executions(sch, id) # {}
  IN IF JobOf(sch, id) = 0
     THEN [sch EXCEPT !.last = << [id |-> id, inProgress |-> inProgress,
                                   invoked |-> FALSE, returned |-> "false"] >>]
     ELSE IF sch.objects[JobObject(sch, id)].isRunning
     THEN [sch EXCEPT !.last = << [id |-> id, inProgress |-> inProgress,
                                   invoked |-> FALSE, returned |-> "false"] >>]
     ELSE [sch EXCEPT !.objects[JobObject(sch, id)].isRunning = TRUE,
                      !.last = << [id |-> id, inProgress |-> inProgress,
                                   invoked |-> TRUE, returned |-> "pending"] >>]

\* a manual run (POST /api/scheduler with action "run")
runJob(id) ==
  /\ scheduler' = runJobOf(scheduler, id)
  /\ UNCHANGED <<givenReviews, receivedReviews, userR4rScores, now, analysis, calc,
                 selectedUser, isLoading, error, runs, timers, saves, posts, lookups,
                 leaderboard, sent, batch>>

\* the interval set by scheduleJob(id) fires: its callback calls runJob(id)
TimerTick(id) ==
  /\ id \in scheduler.timers
  /\ scheduler' = runJobOf(scheduler, id)
  /\ UNCHANGED <<givenReviews, receivedReviews, userR4rScores, now, analysis, calc,
                 selectedUser, isLoading, error, runs, timers, saves, posts, lookups,
                 leaderboard, sent, batch>>

\* the handler invoked for job object o settles (fulfilled or rejected): the
\* finally block of its runJob resets isRunning of that object
HandlerSettle(o) ==
  /\ scheduler.objects[o].isRunning
  /\ scheduler' = [scheduler EXCEPT !.objects[o].isRunning = FALSE]
  /\ UNCHANGED <<givenReviews, receivedReviews, userR4rScores, now, analysis, calc,
                 selectedUser, isLoading, error, runs, timers, saves, posts, lookups,
                 leaderboard, sent, batch>>

SchedulerInit ==
  /\ givenReviews = <<>>
  /\ receivedReviews = <<>>
  /\ userR4rScores = <<>>
  /\ now = Nows[1]
  /\ analysis = <<>>
  /\ calc = <<>>
  /\ selectedUser = <<>>
  /\ isLoading = FALSE
  /\ error = None
  /\ runs = <<>>
  /\ timers = {}
  /\ saves = {}
  /\ posts = {}
  /\ lookups = {}
  /\ leaderboard = {}
  /\ sent = {}
  /\ batch = IdleBatch
  /\ scheduler = IdleScheduler

SchedulerNext ==
  \/ \E id \in JobIds : scheduleJob(id)
  \/ \E id \in JobIds : clearJob(id)
  \/ \E id \in JobIds : runJob(id)
  \/ \E id \in JobIds : TimerTick(id)
  \/ \E o \in DOMAIN scheduler.objects : HandlerSettle(o)

SpecScheduler == SchedulerInit /\ [][SchedulerNext]_vars

\* ------------------------------------------------- the engine on its inputs
EngineInit ==
  /\ \E gs \in SeqsUpTo(GivenRecs, MaxGiven), rs \in SeqsUpTo(ReceivedRecs, MaxReceived),
        k \in Copies :
        /\ givenReviews = Repeat(gs, k)
        /\ receivedReviews = Repeat(rs, k)
  /\ userR4rScores = <<>>
  /\ now = Nows[1]
  /\ analysis = <<>>
  /\ calc = <<>>
  /\ selectedUser = <<>>
  /\ isLoading = FALSE
  /\ error = None
  /\ runs = <<>>
  /\ timers = {}
  /\ saves = {}
  /\ posts = {}
  /\ lookups = {}
  /\ leaderboard = {}
  /\ sent = {}
  /\ batch = IdleBatch
  /\ scheduler = IdleScheduler

\* the engine is invoked at the instant Nows[i], the clock never going back;
\* the result of the invocation before it is kept next to the new one
Analyze(i) ==
  /\ Nows[i] >= now
  /\ now' = Nows[i]
  /\ analysis' = <<AnalysisAt(Nows[i])>> \o SubSeq(analysis, 1, Min(1, Len(analysis)))
  /\ UNCHANGED <<scheduler, givenReviews, receivedReviews, userR4rScores, calc, selectedUser,
                 isLoading, error, runs, timers, saves, posts, lookups,
                 leaderboard, sent, batch>>

EngineNext == \E i \in DOMAIN Nows : Analyze(i)

SpecEngine == EngineInit /\ [][EngineNext]_vars

\* ------------------------------------------------- the scorer on its counts
\* the counts the scorer is evaluated on: reciprocal counts around the volume
\* tiers, received counts on both sides of the cap, ages around the age tiers
ReciprocalCounts == (0..5) \cup {9, 10, 13, 19, 20, 49, 50}
QuickCounts(R) == { q \in 0..R : q <= 5 \/ q = R \/ 5 * q \in {R, 2 * R, 3 * R, 4 * R} }
ExtraGiven == {0, 1, 6}
ReceivedCounts == {0, 1, 2, 20, 77, 600}
Ages == {NaN, SecondsPerDay \div 2} \cup
        { d * SecondsPerDay : d \in {1, 29, 30, 59, 60, 89, 90} }

\* counts that streams can produce: a reciprocal given record has a received
\* match, and an invalid timestamp sits in a record outside the quick matches
Countable(G, N, R, Q, age) ==
  /\ R <= G
  /\ Q <= R
  /\ R > 0 => N > 0
  /\ IsNaN(age) => IF Q = 0 THEN G + N >= 1 ELSE G > Q \/ N > 1

\* r4rScoreDetails on counted records
DetailsFromCounts(G, N, R, Q, age) ==
  IF N > 0 THEN ScoreFromCounts(R, N, Q, G + N, age) ELSE ZeroDetails

CalcInit ==
  /\ givenReviews = <<>>
  /\ receivedReviews = <<>>
  /\ userR4rScores = <<>>
  /\ now = Nows[1]
  /\ analysis = <<>>
  /\ calc = <<>>
  /\ selectedUser = <<>>
  /\ isLoading = FALSE
  /\ error = None
  /\ runs = <<>>
  /\ timers = {}
  /\ saves = {}
  /\ posts = {}
  /\ lookups = {}
  /\ leaderboard = {}
  /\ sent = {}
  /\ batch = IdleBatch
  /\ scheduler = IdleScheduler

\* the scorer is evaluated, once, on G given and N received records of which
\* R are reciprocal and Q quick, the oldest one of the age given
Evaluate(G, N, R, Q, age) ==
  /\ calc = <<>>
  /\ Countable(G, N, R, Q, age)
  /\ calc' = << [given |-> G, received |-> N, reciprocal |-> R, quick |-> Q,
                 age |-> age, details |-> DetailsFromCounts(G, N, R, Q, age)] >>
  /\ UNCHANGED <<scheduler, givenReviews, receivedReviews, userR4rScores, now, analysis,
                 selectedUser, isLoading, error, runs, timers, saves, posts,
                 lookups, leaderboard, sent, batch>>

CalcNext ==
  /\ calc = <<>>
  /\ \E R \in ReciprocalCounts, extra \in ExtraGiven, N \in ReceivedCounts, age \in Ages :
       \E Q \in QuickCounts(R) : Evaluate(R + extra, N, R, Q, age)

SpecScore == CalcInit /\ [][CalcNext]_vars

\* ------------------------------------------------------- the activity API
\* the streams /api/ethos-activities-given and -received (and the upstream
\* activities API of the batch calculator) hold for each userkey
UpstreamOf(userkey) ==
  CASE userkey = UserkeyOf["subj"] ->
         [given |-> << Activity("subj", "alice", "positive", None, Iso(0), FALSE) >>,
          received |-> << Activity("alice", "subj", "positive", None, Iso(1797), FALSE) >>]
    [] userkey = UserkeyOf["other"] ->
         [given |-> << Activity("other", "bob", None, "positive", Iso(0), FALSE) >>,
          received |-> << Activity("bob", "other", "negative", None, Iso(7200), FALSE),
                          Activity("carol", "other", None, None, Iso(5), FALSE) >>]
    [] userkey = UserkeyOf["farmer"] ->
         [given |-> [i \in 1..64 |->
                       Activity("farmer", "alice", "positive", None, Iso(0), FALSE)],
          received |-> [i \in 1..187 |->
                          Activity(IF i = 1 THEN "alice" ELSE "carol", "farmer",
                                   "positive", None, Iso(0), FALSE)]]
    [] userkey = UserkeyOf["viewer"] ->
         [given |-> << Activity("viewer", "subj", "positive", None, Iso(0), FALSE),
                       Activity("viewer", "other", "positive", None, Iso(0), FALSE),
                       Activity("viewer", "alice", "positive", None, Iso(0), FALSE) >>,
          received |-> << Activity("subj", "viewer", "positive", None, Iso(600), FALSE),
                          Activity("other", "viewer", "positive", None, Iso(600), FALSE),
                          Activity("alice", "viewer", "positive", None, Iso(600), FALSE) >>]
    [] OTHER -> [given |-> <<>>, received |-> <<>>]

\* the subjects the island is opened on
Subjects == {"other", "viewer"}

\* the outcome of one fetch as its caller sees it: "failed" is a response
\* that is not ok, a rejected promise or a body that json() cannot parse
FetchOutcomes == {"ok", "failed"}

\* ------------------------------------------------ the ReviewAnalysis island
\* the props of the island
SelectedUser(u) == [userkey |-> UserkeyOf[u], username |-> u, name |-> NameOf[u]]

\* data.values || [] of a response
ValuesOf(outcome, values) == IF outcome = "ok" THEN values ELSE <<>>

\* mutant: only the response of the given stream is tested
FetchFailedGivenOnly(givenOutcome, receivedOutcome) == givenOutcome # "ok"

\* the try block of fetchReviews leaves for the catch block
FetchFailed(givenOutcome, receivedOutcome) ==
  givenOutcome # "ok" \/ receivedOutcome # "ok"

\* an instance of the island when it is mounted on u: its props, its signals
\* (useSignal initial values) and the outcome of its two fetches
NewInstance(u) ==
  [user |-> SelectedUser(u), given |-> "pending", received |-> "pending",
   givenReviews |-> <<>>, receivedReviews |-> <<>>, userR4rScores |-> <<>>,
   isLoading |-> TRUE, error |-> None]

\* the instance on the page: AppWrapper and ProfileAnalysisPage render the
\* island for one subject at a time and unmount it before another subject
\* is shown, so the instance mounted last is the one on the page
Mounted(r) == r = Len(runs)

\* the page shows the analysis of another subject u: a new instance of the
\* island is mounted on u and its effect runs fetchReviews up to the first
\* await.  The instance shown before is unmounted; the effect has no cleanup,
\* so its fetches, its timer and its save go on, on its own signals.
SelectUser(u) ==
  /\ Len(runs) + Len(batch.limitedUserkeys) < MaxAnalyses
  /\ selectedUser # <<SelectedUser(u)>>
  /\ selectedUser' = <<SelectedUser(u)>>
  /\ givenReviews' = <<>>
  /\ receivedReviews' = <<>>
  /\ userR4rScores' = <<>>
  /\ isLoading' = TRUE
  /\ error' = None
  /\ runs' = Append(runs, NewInstance(u))
  /\ UNCHANGED <<scheduler, now, analysis, calc, timers, saves, posts, lookups,
                 leaderboard, sent, batch>>

\* the two fetches of instance r settle and fetchReviews runs to its end
FetchSettle(r, givenOutcome, receivedOutcome) ==
  /\ runs[r].given = "pending"
  /\ LET failed == FetchFailed(givenOutcome, receivedOutcome)
         given == ValuesOf(givenOutcome, UpstreamOf(runs[r].user.userkey).given)
         received == ValuesOf(receivedOutcome, UpstreamOf(runs[r].user.userkey).received)
     IN /\ runs' = [runs EXCEPT
              ![r].given = givenOutcome,
              ![r].received = receivedOutcome,
              ![r].givenReviews = IF failed THEN @ ELSE given,
              ![r].receivedReviews = IF failed THEN @ ELSE received,
              ![r].error = IF failed THEN LoadError ELSE @,
              ![r].isLoading = FALSE]
        /\ timers' = IF failed THEN timers ELSE timers \cup {r}
        /\ lookups' = IF failed THEN lookups ELSE lookups \cup {r}
        /\ IF Mounted(r)
           THEN /\ givenReviews' = IF failed THEN givenReviews ELSE given
                /\ receivedReviews' = IF failed THEN receivedReviews ELSE received
                /\ error' = IF failed THEN LoadError ELSE error
                /\ isLoading' = FALSE
           ELSE UNCHANGED <<givenReviews, receivedReviews, error, isLoading>>
  /\ UNCHANGED <<scheduler, selectedUser, userR4rScores, now, analysis, calc, saves, posts,
                 leaderboard, sent, batch>>

\* mutant: only the pairs whose counterpart has a looked-up score are counted
QuickPairsOfKnown(pairs) ==
  Len(SelectSeq(pairs, LAMBDA p : /\ p.isReciprocal /\ IsQuick(p.timeDifference)
                                  /\ p.r4rScore # Undefined))

\* reviewPairs.value.filter(pair => pair.isReciprocal).filter(timeDifference < 0.0208)
QuickPairs(pairs) ==
  Len(SelectSeq(pairs, LAMBDA p : p.isReciprocal /\ IsQuick(p.timeDifference)))

\* the Reciprocal column of the Review Relationships table: the mark shown
\* for a pair
ReciprocalColumn(pair) ==
  LET hasGiven == pair.givenReview # <<>>
      hasReceived == pair.receivedReview # <<>>
      bothNegative == /\ hasGiven /\ pair.givenReview[1].dataScore = "negative"
                      /\ hasReceived /\ pair.receivedReview[1].dataScore = "negative"
  IN IF hasGiven /\ hasReceived
     THEN IF bothNegative THEN "excluded" ELSE "r4r"
     ELSE "none"

\* the timer of instance r fires: its saveAnalysisToDatabase counts the quick
\* pairs of its reviewPairs and waits for the Ethos score and XP
TimerFire(r) ==
  /\ r \in timers
  /\ timers' = timers \ {r}
  /\ saves' = saves \cup
       {[run |-> r,
         quickReciprocations |->
           QuickPairs(reviewPairs(runs[r].givenReviews, runs[r].receivedReviews,
                                  runs[r].userR4rScores))]}
  /\ UNCHANGED <<scheduler, givenReviews, receivedReviews, userR4rScores, now, analysis, calc,
                 selectedUser, isLoading, error, runs, posts, lookups,
                 leaderboard, sent, batch>>

\* mutant: the counts are read from the signals of the island on the page
AnalysisDataOfPage(s) ==
  LET st == stats(givenReviews, receivedReviews, now)
  IN [run |-> s.run,
      userkey |-> runs[s.run].user.userkey,
      username |-> runs[s.run].user.username,
      name |-> runs[s.run].user.name,
      reviewsGiven |-> st.given,
      reviewsReceived |-> st.received,
      reciprocalReviews |-> st.reciprocal,
      farmingScore |-> st.r4rScore,
      quickReciprocations |-> s.quickReciprocations,
      highRiskR4rs |-> Undefined]

\* the analysisData that saveAnalysisToDatabase posts
AnalysisData(s) ==
  LET st == stats(runs[s.run].givenReviews, runs[s.run].receivedReviews, now)
  IN [run |-> s.run,
      userkey |-> runs[s.run].user.userkey,
      username |-> runs[s.run].user.username,
      name |-> runs[s.run].user.name,
      reviewsGiven |-> st.given,
      reviewsReceived |-> st.received,
      reciprocalReviews |-> st.reciprocal,
      farmingScore |-> st.r4rScore,
      quickReciprocations |-> s.quickReciprocations,
      highRiskR4rs |-> Undefined]

\* the score and XP fetches settle: saveAnalysisToDatabase reads stats and
\* posts to /api/save-analysis
SaveSend(s) ==
  /\ s \in saves
  /\ saves' = saves \ {s}
  /\ posts' = posts \cup {AnalysisData(s)}
  /\ sent' = sent \cup {<<"run", s.run>>}
  /\ UNCHANGED <<scheduler, givenReviews, receivedReviews, userR4rScores, now, analysis, calc,
                 selectedUser, isLoading, error, runs, timers, lookups,
                 leaderboard, batch>>

\* scoreMap of loadR4rScores: username -> farming_score of the entries
ScoreMap(entries) ==
  LET names == { entry.username : entry \in entries }
  IN [n \in names |-> (CHOOSE entry \in entries : entry.username = n).farming_score]

\* the fetch of /api/leaderboard made by loadR4rScores of instance r settles:
\* a response that is ok replaces the cache, anything else leaves it
LoadR4rScoresSettle(r, outcome) ==
  /\ r \in lookups
  /\ lookups' = lookups \ {r}
  /\ LET scoreMap == IF outcome = "ok" THEN ScoreMap(leaderboard)
                     ELSE runs[r].userR4rScores
     IN /\ runs' = [runs EXCEPT ![r].userR4rScores = scoreMap]
        /\ userR4rScores' = IF Mounted(r) THEN scoreMap ELSE userR4rScores
  /\ UNCHANGED <<scheduler, givenReviews, receivedReviews, now, analysis, calc, selectedUser,
                 isLoading, error, timers, saves, posts, leaderboard,
                 sent, batch>>

\* ------------------------------------------------------ the leaderboard store
\* mutant: a plain INSERT, the row of an earlier save stays
saveLeaderboardEntryInsertOnly(store, entry) == store \cup {entry}

\* INSERT ... ON CONFLICT (userkey) DO UPDATE SET every column = EXCLUDED:
\* the row that holds the userkey of the entry (the primary key), if there
\* is one, is replaced by the entry
saveLeaderboardEntry(store, entry) ==
  { row \in store : row.userkey # entry.userkey } \cup {entry}

\* x || 0
OrZero(x) == IF x = Undefined \/ IsNaN(x) THEN 0 ELSE x

\* the entry that POST /api/save-analysis builds; farming_score in hundredths
SaveAnalysisEntry(analysisData) ==
  [userkey |-> analysisData.userkey,
   username |-> analysisData.username,
   name |-> analysisData.name,
   reviews_given |-> OrZero(analysisData.reviewsGiven),
   reviews_received |-> OrZero(analysisData.reviewsReceived),
   reciprocal_reviews |-> OrZero(analysisData.reciprocalReviews),
   farming_score |-> 100 * OrZero(analysisData.farmingScore),
   risk_level |-> riskLevel(analysisData.farmingScore),
   quick_reciprocations |-> OrZero(analysisData.quickReciprocations),
   high_risk_r4rs |-> OrZero(analysisData.highRiskR4rs)]

\* POST /api/save-analysis handles the request p; the database accepts the
\* statement or throws
SaveAnalysis(p, dbOutcome) ==
  /\ p \in posts
  /\ posts' = posts \ {p}
  /\ leaderboard' =
       IF p.userkey = None \/ p.username = None \/ p.name = None THEN leaderboard
       ELSE IF dbOutcome = "ok" THEN saveLeaderboardEntry(leaderboard, SaveAnalysisEntry(p))
       ELSE leaderboard
  /\ UNCHANGED <<scheduler, givenReviews, receivedReviews, userR4rScores, now, analysis, calc,
                 selectedUser, isLoading, error, runs, timers, saves, lookups,
                 sent, batch>>

\* --------------------------------------------- the high-risk R4R update
\* the score from which a counterpart is high-risk (otherUserR4rScore >= 70),
\* in hundredths
HighRiskScore == 7000

\* userR4rMap: username -> farming_score of allEntries
UserR4rMap(allEntries) == ScoreMap(allEntries)

\* mutant: a counterpart without an entry counts as high-risk
IsHighRiskOrUnknown(otherUserR4rScore) ==
  otherUserR4rScore = Undefined \/ otherUserR4rScore >= HighRiskScore

\* otherUserR4rScore !== undefined && otherUserR4rScore >= 70
IsHighRisk(otherUserR4rScore) ==
  otherUserR4rScore # Undefined /\ otherUserR4rScore >= HighRiskScore

\* the given records counted by calculateHighRiskR4rs: the counterpart's
\* stored score is high and the first received record of the counterpart is
\* positive with the given record (the three tests are nested ifs; the
\* cheapest is evaluated first here)
HighRiskIndices(givenR, receivedR, userR4rMap) ==
  { i \in 1..Len(givenR) :
      LET targetUsername == givenR[i].subject.username
          m == FindReceived(receivedR, targetUsername)
      IN /\ IsHighRisk(CacheGet(userR4rMap, targetUsername))
         /\ m # 0
         /\ Rating(givenR[i]) = "positive"
         /\ Rating(receivedR[m]) = "positive" }

\* calculateHighRiskR4rs(username, allEntries); fetchUserActivities returns
\* the non-archived records, or [] when the fetch fails
calculateHighRiskR4rs(username, allEntries, fetchOutcome) ==
  LET up == UpstreamOf(UserkeyOf[username])
      givenR == NonArchived(ValuesOf(fetchOutcome, up.given))
      receivedR == NonArchived(ValuesOf(fetchOutcome, up.received))
  IN Cardinality(HighRiskIndices(givenR, receivedR, UserR4rMap(allEntries)))

\* how a run of the update goes, the same way for each of its entries: the
\* count is calculated and written, the activity fetches fail (the count is
\* 0), or the UPDATE throws
UpdateOutcomes == {"ok", "failed", "threw"}

\* POST /api/update-high-risk-r4rs: every entry read by getLeaderboard gets
\* the count calculated for its username against the entries read
UpdateHighRiskR4rs(outcome) ==
  /\ leaderboard # {}
  /\ leaderboard' =
       { IF outcome = "threw" THEN entry
         ELSE [entry EXCEPT !.high_risk_r4rs =
                 calculateHighRiskR4rs(entry.username, leaderboard, outcome)] :
         entry \in leaderboard }
  /\ UNCHANGED <<scheduler, givenReviews, receivedReviews, userR4rScores, now, analysis, calc,
                 selectedUser, isLoading, error, runs, timers, saves, posts, lookups,
                 sent, batch>>

\* ------------------------------------------------------ the batch calculator
\* new Date(createdAt).getTime(), in seconds; createdAt is a string, and a
\* string of digits only is no date string
NewDate(createdAt) == IF createdAt.fmt = "iso" THEN createdAt.val ELSE NaN

\* activeReceivedReviews.find(r => r.author.username === givenReview.subject.username)
BatchMatched(given, received) ==
  { i \in 1..Len(given) : FindReceived(received, given[i].subject.username) # 0 }

\* Math.abs(givenTime - receivedTime), in seconds
BatchTimeDifference(givenReview, reciprocalReview) ==
  LET g == NewDate(givenReview.createdAt)
      r == NewDate(reciprocalReview.createdAt)
  IN IF IsNaN(g) \/ IsNaN(r) THEN NaN ELSE Abs(g - r)

\* timeDifference <= 24, timeDifference in hours
QuickHours == 24
BatchQuick(given, received) ==
  { i \in BatchMatched(given, received) :
      LET d == BatchTimeDifference(given[i],
                 received[FindReceived(received, given[i].subject.username)])
      IN ~IsNaN(d) /\ d <= QuickHours * 3600 }

\* in twentieths
BatchVolumeMultiplier(R) ==
  IF R >= 50 THEN 24 ELSE IF R >= 20 THEN 23 ELSE IF R >= 10 THEN 21 ELSE 20

\* Date.now() - Math.min(...createdAt times): Math.min of nothing is Infinity
\* and the age -Infinity, which is below every bound
BatchAccountAge(allReviews, nowv) ==
  LET T == { NewDate(allReviews[i].createdAt) : i \in 1..Len(allReviews) }
  IN IF NaN \in T THEN NaN
     ELSE IF T = {} THEN 0 - SecondsPerDay
     ELSE nowv - (CHOOSE t \in T : \A u \in T : t <= u)

\* in twentieths
BatchAccountAgeMultiplier(totalReviews, age) ==
  IF AgeBelow(age, 30) /\ ReviewsPerDayAbove(totalReviews, age, 10) THEN 28
  ELSE IF AgeBelow(age, 60) /\ ReviewsPerDayAbove(totalReviews, age, 5) THEN 25
  ELSE IF AgeBelow(age, 90) /\ ReviewsPerDayAbove(totalReviews, age, 2) THEN 22
  ELSE 20

\* in halves; quickReciprocalPercentage >= p is 100 * Q >= p * R
BatchTimePenalty(Q, R) ==
  IF R > 0 /\ 100 * Q >= 80 * R THEN 25
  ELSE IF R > 0 /\ 100 * Q >= 60 * R THEN 20
  ELSE IF R > 0 /\ 100 * Q >= 40 * R THEN 13
  ELSE IF R > 0 /\ 100 * Q >= 20 * R THEN 6
  ELSE 0

\* the value calculateUserR4rScore returns once both streams are fetched:
\* <<>> for null, else <<result>>; r4rScore in hundredths
BatchResult(givenReviews_, receivedReviews_, nowv) ==
  IF givenReviews_ = <<>> /\ receivedReviews_ = <<>> THEN <<>>
  ELSE
    LET userInfo == IF givenReviews_ # <<>> THEN givenReviews_[1].author
                    ELSE receivedReviews_[1].subject
        given == NonArchived(givenReviews_)
        received == NonArchived(receivedReviews_)
        R == Cardinality(BatchMatched(given, received))
        Q == Cardinality(BatchQuick(given, received))
        N == Len(received)
        base == IF N > 0 THEN <<100 * R, N>> ELSE <<0, 1>>
        vm == BatchVolumeMultiplier(R)
        am == BatchAccountAgeMultiplier(Len(given) + Len(received),
                                        BatchAccountAge(given \o received, nowv))
        raw == RatAdd(<<base[1] * vm * am, base[2] * 400>>, <<BatchTimePenalty(Q, R), 2>>)
        r4rScore == IF raw[1] >= 100 * raw[2] THEN <<100, 1>> ELSE raw
    IN << [userkey |-> userInfo.userkey, username |-> userInfo.username,
           name |-> userInfo.name,
           r4rScore |-> Round(<<100 * r4rScore[1], r4rScore[2]>>),
           reviewsGiven |-> Len(given), reviewsReceived |-> N,
           reciprocalReviews |-> R, quickReciprocations |-> Q,
           riskLevel |-> IF r4rScore[1] >= 70 * r4rScore[2] THEN "high"
                         ELSE IF r4rScore[1] >= 40 * r4rScore[2] THEN "moderate"
                         ELSE "low"] >>

\* the entry the batch endpoint saves for a result
BatchEntry(result) ==
  [userkey |-> result.userkey, username |-> result.username, name |-> result.name,
   reviews_given |-> result.reviewsGiven,
   reviews_received |-> result.reviewsReceived,
   reciprocal_reviews |-> result.reciprocalReviews,
   farming_score |-> result.r4rScore,
   risk_level |-> result.riskLevel,
   quick_reciprocations |-> result.quickReciprocations,
   high_risk_r4rs |-> OrZero(Undefined)]

\* the request bodies posted to /api/calculate-r4r-batch
BatchUserkeys == { UserkeyOf[u] : u \in {"subj", "other", "nobody", "farmer"} }

\* calculateUserR4rScore(userkey) with both fetches fulfilled, by userkey and
\* the reading of the clock
calculateUserR4rScore ==
  [userkey \in BatchUserkeys, nowv \in { Nows[i] : i \in DOMAIN Nows } |->
     LET up == UpstreamOf(userkey)
     IN BatchResult(up.given, up.received, nowv)]
\* what the island computes (stats and r4rScoreDetails) on the streams the
\* batch calculator fetches for a userkey, by userkey and reading of the clock
interactiveOnUpstream ==
  [userkey \in BatchUserkeys, nowv \in { Nows[i] : i \in DOMAIN Nows } |->
     LET up == UpstreamOf(userkey)
     IN [stats |-> stats(up.given, up.received, nowv),
         details |-> r4rScoreDetails(up.given, up.received, nowv)]]
BatchRequests == UNION { [1..n -> BatchUserkeys] : n \in 0..MaxAnalyses }
Limits == {1, DefaultLimit}

\* Array.prototype.slice(0, end): a negative end counts from the end of the
\* array, an end beyond the length stops at the length
SliceFromStart(arr, end) ==
  LET k == IF end < 0 THEN Max(Len(arr) + end, 0) ELSE Min(end, Len(arr))
  IN SubSeq(arr, 1, k)

\* userkeys.slice(0, Math.min(limit, 100))
LimitedUserkeys(userkeys, limit) == SliceFromStart(userkeys, Min(limit, MaxLimit))

\* one slot per element of limitedUserkeys: where its chunk promise stands
\* ("waiting", "given", "received", "saving", "saved", "null", "threw") and
\* how its fetches ended
NewSlot == [pc |-> "waiting", given |-> "pending", received |-> "pending"]

\* the slots of the chunk that starts at index i
ChunkOf(slots, i) == { k \in DOMAIN slots : i <= k /\ k < i + chunkSize }

StartChunk(slots, i) ==
  [k \in DOMAIN slots |->
     IF k \in ChunkOf(slots, i) THEN [slots[k] EXCEPT !.pc = "given"] ELSE slots[k]]

Settled(slot) == slot.pc \in {"saved", "null", "threw"}

\* POST: the body is read, the userkeys are limited and the first chunk starts
BatchPost(userkeys, limit) ==
  /\ batch.pc = "idle"
  /\ IF userkeys = <<>>
     THEN batch' = [batch EXCEPT !.pc = "rejected"]
     ELSE LET limitedUserkeys == LimitedUserkeys(userkeys, limit)
          IN batch' = [batch EXCEPT
               !.pc = "running",
               !.limit = limit,
               !.limitedUserkeys = limitedUserkeys,
               !.i = 1,
               !.slots = StartChunk([k \in DOMAIN limitedUserkeys |-> NewSlot], 1)]
  /\ UNCHANGED <<scheduler, givenReviews, receivedReviews, userR4rScores, now, analysis, calc,
                 selectedUser, isLoading, error, runs, timers, saves, posts,
                 lookups, leaderboard, sent>>

FailedToCalculate(userkey) == [message |-> "Failed to calculate R4R score for", userkey |-> userkey]
ErrorProcessing(userkey) == [message |-> "Error processing", userkey |-> userkey]

\* calculateUserR4rScore of slot k: the fetch of the given reviews settles
BatchFetchGiven(k, outcome) ==
  /\ batch.pc = "running"
  /\ k \in DOMAIN batch.slots
  /\ batch.slots[k].pc = "given"
  /\ IF outcome = "ok"
     THEN batch' = [batch EXCEPT !.slots[k].pc = "received", !.slots[k].given = "ok"]
     ELSE batch' = [batch EXCEPT
            !.slots[k].pc = "null", !.slots[k].given = outcome,
            !.errors = Append(@, FailedToCalculate(batch.limitedUserkeys[k]))]
  /\ UNCHANGED <<scheduler, givenReviews, receivedReviews, userR4rScores, now, analysis, calc,
                 selectedUser, isLoading, error, runs, timers, saves, posts,
                 lookups, leaderboard, sent>>

\* calculateUserR4rScore of slot k: the fetch of the received reviews settles
\* and the score is calculated; a result goes on to saveLeaderboardEntry
BatchFetchReceived(k, outcome) ==
  /\ batch.pc = "running"
  /\ k \in DOMAIN batch.slots
  /\ batch.slots[k].pc = "received"
  /\ LET result == calculateUserR4rScore[batch.limitedUserkeys[k], now]
     IN IF outcome = "ok" /\ result # <<>>
        THEN batch' = [batch EXCEPT !.slots[k].pc = "saving", !.slots[k].received = "ok"]
        ELSE batch' = [batch EXCEPT
               !.slots[k].pc = "null", !.slots[k].received = outcome,
               !.errors = Append(@, FailedToCalculate(batch.limitedUserkeys[k]))]
  /\ UNCHANGED <<scheduler, givenReviews, receivedReviews, userR4rScores, now, analysis, calc,
                 selectedUser, isLoading, error, runs, timers, saves, posts,
                 lookups, leaderboard, sent>>

\* the chunk promise of slot k: saveLeaderboardEntry settles
BatchSave(k, dbOutcome) ==
  /\ batch.pc = "running"
  /\ k \in DOMAIN batch.slots
  /\ batch.slots[k].pc = "saving"
  /\ sent' = sent \cup {<<"batch", k>>}
  /\ LET result == calculateUserR4rScore[batch.limitedUserkeys[k], now][1]
     IN IF dbOutcome = "ok"
        THEN /\ leaderboard' = saveLeaderboardEntry(leaderboard, BatchEntry(result))
             /\ batch' = [batch EXCEPT
                  !.slots[k].pc = "saved",
                  !.results = Append(@, [slot |-> k, userkey |-> result.userkey,
                                         username |-> result.username,
                                         r4rScore |-> result.r4rScore]),
                  !.processed = @ + 1]
        ELSE /\ UNCHANGED leaderboard
             /\ batch' = [batch EXCEPT
                  !.slots[k].pc = "threw",
                  !.errors = Append(@, ErrorProcessing(batch.limitedUserkeys[k]))]
  /\ UNCHANGED <<scheduler, givenReviews, receivedReviews, userR4rScores, now, analysis, calc,
                 selectedUser, isLoading, error, runs, timers, saves, posts,
                 lookups>>

\* Promise.allSettled of the chunk resolves: the next chunk starts after the
\* delay, or the response is built
BatchChunkSettled ==
  /\ batch.pc = "running"
  /\ \A k \in ChunkOf(batch.slots, batch.i) : Settled(batch.slots[k])
  /\ IF batch.i + chunkSize <= Len(batch.limitedUserkeys)
     THEN batch' = [batch EXCEPT !.i = @ + chunkSize,
                                 !.slots = StartChunk(@, batch.i + chunkSize)]
     ELSE batch' = [batch EXCEPT
            !.pc = "responded",
            !.response = << [processed |-> batch.processed, errors |-> batch.errors,
                             results |-> batch.results,
                             totalRequested |-> Len(batch.limitedUserkeys)] >>]
  /\ UNCHANGED <<scheduler, givenReviews, receivedReviews, userR4rScores, now, analysis, calc,
                 selectedUser, isLoading, error, runs, timers, saves, posts,
                 lookups, leaderboard, sent>>

\* ------------------------------------------------------------ the application
Init ==
  /\ givenReviews = <<>>
  /\ receivedReviews = <<>>
  /\ userR4rScores = <<>>
  /\ now = Nows[1]
  /\ analysis = <<>>
  /\ calc = <<>>
  /\ selectedUser = <<>>
  /\ isLoading = TRUE
  /\ error = None
  /\ runs = <<>>
  /\ timers = {}
  /\ saves = {}
  /\ posts = {}
  /\ lookups = {}
  /\ leaderboard = {}
  /\ sent = {}
  /\ batch = IdleBatch
  /\ scheduler = IdleScheduler

Next ==
  \/ \E u \in Subjects : SelectUser(u)
  \/ \E r \in DOMAIN runs, g, rc \in FetchOutcomes : FetchSettle(r, g, rc)
  \/ \E r \in timers : TimerFire(r)
  \/ \E s \in saves : SaveSend(s)
  \/ \E r \in lookups, o \in FetchOutcomes : LoadR4rScoresSettle(r, o)
  \/ \E p \in posts, o \in FetchOutcomes : SaveAnalysis(p, o)
  \/ \E userkeys \in BatchRequests, limit \in Limits :
        /\ Len(runs) + Len(LimitedUserkeys(userkeys, limit)) <= MaxAnalyses
        /\ BatchPost(userkeys, limit)
  \/ \E k \in DOMAIN batch.slots, o \in FetchOutcomes : BatchFetchGiven(k, o)
  \/ \E k \in DOMAIN batch.slots, o \in FetchOutcomes : BatchFetchReceived(k, o)
  \/ \E k \in DOMAIN batch.slots, o \in FetchOutcomes : BatchSave(k, o)
  \/ BatchChunkSettled
  \/ \E o \in UpdateOutcomes : UpdateHighRiskR4rs(o)

Spec == Init /\ [][Next]_vars

\* ---------------------------------------------- the batch endpoint by itself
\* the bodies posted: an empty list, a list shorter than a chunk, and a list
\* of chunkSize + 1 userkeys; a limit below, at and above the list length,
\* no limit (the default), a limit above the cap, and a negative limit
ChunkedRequests ==
  { <<>>,
    <<UserkeyOf["subj"], UserkeyOf["other"]>>,
    [k \in 1..(chunkSize + 1) |-> IF k = 2 THEN UserkeyOf["other"]
                                  ELSE IF k = chunkSize + 1 THEN UserkeyOf["subj"]
                                  ELSE UserkeyOf["nobody"]] }
ChunkedLimits == {-1, 0, 1, DefaultLimit, MaxLimit + 1}

BatchNext ==
  \/ \E userkeys \in ChunkedRequests, limit \in ChunkedLimits :
        BatchPost(userkeys, limit)
  \/ \E k \in DOMAIN batch.slots, o \in FetchOutcomes : BatchFetchGiven(k, o)
  \/ \E k \in DOMAIN batch.slots, o \in FetchOutcomes : BatchFetchReceived(k, o)
  \/ \E k \in DOMAIN batch.slots, o \in FetchOutcomes : BatchSave(k, o)
  \/ BatchChunkSettled

SpecBatch == Init /\ [][BatchNext]_vars

\* ------------------------------------------------------------------ claims
Analyzed == analysis # <<>>
Latest == analysis[1]
ActiveGiven == NonArchived(givenReviews)
ActiveReceived == NonArchived(receivedReviews)

\* C1: the finalScore of every analysis is an integer between 0 and 100
C1_FinalScoreInRange ==
  Analyzed => Latest.details.finalScore \in 0..100

\* C1 witness: an analysis whose rounded score before the cap exceeds 100
C1_Witness_CapApplies ==
  /\ Analyzed
  /\ Round(RatAdd(Latest.details.scoreAfterMultipliers, Latest.details.timePenalty)) > 100
  /\ Latest.details.finalScore = 100

PairIsPositivePositive(p) ==
  /\ p.givenReview # <<>>
  /\ p.receivedReview # <<>>
  /\ Rating(p.givenReview[1]) = "positive"
  /\ Rating(p.receivedReview[1]) = "positive"

\* C2: a pair is reciprocal exactly when it holds a given and a received
\* record of its counterpart and both are rated positive
C2_ReciprocalIffBothPositive ==
  Analyzed =>
    \A i \in DOMAIN Latest.pairs :
      LET p == Latest.pairs[i]
      IN /\ p.isReciprocal <=> PairIsPositivePositive(p)
         /\ p.givenReview # <<>> => p.givenReview[1].subject.username = p.username
         /\ p.receivedReview # <<>> => p.receivedReview[1].author.username = p.username

\* C2 witness: a reciprocal pair next to a two-sided pair with a negative rating
C2_Witness_MixedPairs ==
  /\ Analyzed
  /\ \E i, j \in DOMAIN Latest.pairs :
       /\ Latest.pairs[i].isReciprocal
       /\ ~Latest.pairs[j].isReciprocal
       /\ Latest.pairs[j].givenReview # <<>>
       /\ Latest.pairs[j].receivedReview # <<>>
       /\ "negative" \in { Rating(Latest.pairs[j].givenReview[1]),
                           Rating(Latest.pairs[j].receivedReview[1]) }

\* C3: no two pairs of one analysis have the same counterpart
C3_OnePairPerCounterpart ==
  Analyzed =>
    \A i, j \in DOMAIN Latest.pairs :
      i # j => Latest.pairs[i].username # Latest.pairs[j].username

\* C3 witness: several given and several received records of one counterpart
C3_Witness_Duplicates ==
  /\ Analyzed
  /\ \E i, j \in DOMAIN ActiveGiven :
       i # j /\ ActiveGiven[i].subject.username = ActiveGiven[j].subject.username
  /\ \E i, j \in DOMAIN ActiveReceived :
       i # j /\ ActiveReceived[i].author.username = ActiveReceived[j].author.username
  /\ Len(Latest.pairs) >= 2

\* the gap of the match of given record i, NaN when a timestamp is invalid
GapOf(i) ==
  TimeDiff(ActiveGiven[i].timestamp,
           ActiveReceived[FindReceived(ActiveReceived, ActiveGiven[i].subject.username)].timestamp)

\* C4: the scorer counts as quick exactly the positive/positive matches whose
\* gap is strictly below 1/48 day (30 minutes)
C4_QuickBelowThirtyMinutes ==
  Analyzed /\ ActiveReceived # <<>> =>
    Latest.details.quickReciprocations =
      Cardinality({ i \in ReciprocalIndices(ActiveGiven, ActiveReceived) :
                      ~IsNaN(GapOf(i)) /\ GapOf(i) * 48 < SecondsPerDay })

\* the part of an analysis that does not read the clock
ClockFree(a) ==
  [given |-> a.stats.given, received |-> a.stats.received,
   reciprocal |-> a.stats.reciprocal, pairs |-> a.pairs,
   baseScore |-> a.details.baseScore,
   volumeMultiplier |-> a.details.volumeMultiplier,
   quickReciprocations |-> a.details.quickReciprocations,
   suspiciousRatio |-> a.details.suspiciousRatio,
   timePenalty |-> a.details.timePenalty]

C6_NothingReceivedScoresZero ==
  Analyzed /\ ActiveReceived = <<>> =>
    /\ RatIsZero(Latest.details.baseScore)
    /\ RatIsZero(Latest.details.timePenalty)
    /\ Latest.details.finalScore = 0
    /\ Latest.stats.r4rScore = 0
    /\ riskLevel(Latest.stats.r4rScore) = "low"

\* C6 witness: given reviews and archived received reviews only
C6_Witness_OnlyArchivedReceived ==
  /\ Analyzed
  /\ ActiveReceived = <<>>
  /\ receivedReviews # <<>>
  /\ ActiveGiven # <<>>

PositiveMatched ==
  { i \in DOMAIN ActiveGiven :
      /\ Rating(ActiveGiven[i]) = "positive"
      /\ \E j \in DOMAIN ActiveReceived :
           /\ ActiveReceived[j].author.username = ActiveGiven[i].subject.username
           /\ Rating(ActiveReceived[j]) = "positive" }

\* C8: 0 <= Q <= R, and R counts positive/positive two-sided matches only
C8_QuickWithinReciprocal ==
  Analyzed =>
    /\ 0 <= Latest.details.quickReciprocations
    /\ Latest.details.quickReciprocations <= Latest.stats.reciprocal
    /\ Latest.stats.reciprocal <= Cardinality(PositiveMatched)

\* C8 witness: a quick two-sided match with a non-positive rating and a
\* one-way record, next to a counted quick reciprocation
C8_Witness_QuickNonPositive ==
  /\ Analyzed
  /\ Latest.details.quickReciprocations >= 1
  /\ \E i \in DOMAIN ActiveGiven :
       /\ FindReceived(ActiveReceived, ActiveGiven[i].subject.username) # 0
       /\ Rating(ActiveGiven[i]) # "positive"
       /\ IsQuick(GapOf(i))

RunFailed(r) == runs[r].given = "failed" \/ runs[r].received = "failed"
RunLoaded(r) == runs[r].given = "ok" /\ runs[r].received = "ok"
SlotFailed(k) ==
  batch.slots[k].given = "failed" \/ batch.slots[k].received = "failed"

\* C9: when the fetch of the given or of the received stream fails, the
\* analysis ends in a failure. In the island no save is scheduled, started or
\* posted for that run, the error is shown as long as no other subject is
\* selected, and the loaded streams are always the two streams of one subject
\* whose fetches both succeeded. In the batch endpoint the user is in errors,
\* has no result and no leaderboard entry is saved for it.
C9_FetchFailureIsExplicit ==
  /\ \A r \in DOMAIN runs :
       RunFailed(r) =>
         /\ r \notin timers
         /\ \A s \in saves : s.run # r
         /\ \A p \in posts : p.run # r
         /\ <<"run", r>> \notin sent
  /\ (runs # <<>> /\ RunFailed(Len(runs))) => (error = LoadError /\ ~isLoading)
  /\ \/ givenReviews = <<>> /\ receivedReviews = <<>>
     \/ \E r \in DOMAIN runs :
          /\ RunLoaded(r)
          /\ givenReviews = UpstreamOf(runs[r].user.userkey).given
          /\ receivedReviews = UpstreamOf(runs[r].user.userkey).received
  /\ \A k \in DOMAIN batch.slots :
       SlotFailed(k) =>
         /\ batch.slots[k].pc = "null"
         /\ FailedToCalculate(batch.limitedUserkeys[k]) \in
              { batch.errors[j] : j \in DOMAIN batch.errors }
         /\ \A j \in DOMAIN batch.results : batch.results[j].slot # k
         /\ <<"batch", k>> \notin sent

\* C9 witness: a run of the island whose given stream loaded and whose
\* received stream failed, and a batch response for a user whose given
\* stream loaded and whose received fetch failed
C9_Witness_OneStreamFailed ==
  /\ \E r \in DOMAIN runs : runs[r].given = "ok" /\ runs[r].received = "failed"
  /\ error = LoadError
  /\ batch.pc = "responded"
  /\ \E k \in DOMAIN batch.slots :
       batch.slots[k].given = "ok" /\ batch.slots[k].received = "failed"
  /\ batch.response[1].errors # <<>>
  /\ sent = {}
  /\ leaderboard = {}

FirstGivenOf(username) ==
  ActiveGiven[CHOOSE i \in DOMAIN ActiveGiven :
     /\ ActiveGiven[i].subject.username = username
     /\ \A j \in 1..(i - 1) : ActiveGiven[j].subject.username # username]

FirstReceivedOf(username) ==
  ActiveReceived[FindReceived(ActiveReceived, username)]

\* C10: a pair holds the first given and the first received record of its
\* counterpart
C10_FirstRecordsRetained ==
  Analyzed =>
    \A i \in DOMAIN Latest.pairs :
      LET p == Latest.pairs[i]
      IN /\ p.givenReview # <<>> => p.givenReview[1] = FirstGivenOf(p.username)
         /\ p.receivedReview # <<>> => p.receivedReview[1] = FirstReceivedOf(p.username)

\* ------------------------------------------- claims on the stages of the score
Calculated == calc # <<>>
Calc == calc[1]

RECURSIVE Gcd(_, _)
Gcd(a, b) == IF b = 0 THEN a ELSE Gcd(b, a % b)

\* equality of two non-negative rationals <<num, den>>
RatNorm(q) == LET g == Gcd(q[1], q[2]) IN <<q[1] \div g, q[2] \div g>>
RatEq(p, q) == RatNorm(p) = RatNorm(q)

ClaimedPenalty(Q, R) ==
  IF R = 0 THEN <<0, 1>>
  ELSE IF 10 * Q >= 8 * R /\ Q >= 3 THEN <<10 * R + 5 * Q, R>>
  ELSE IF 10 * Q >= 6 * R /\ Q >= 3 THEN <<8 * R + 4 * Q, R>>
  ELSE IF 10 * Q >= 4 * R /\ Q >= 2 THEN <<5 * R + 3 * Q, R>>
  ELSE IF 10 * Q >= 2 * R /\ Q >= 2 THEN <<2 * R + 2 * Q, R>>
  ELSE <<0, 1>>

C13_VolumeMultiplierTiers ==
  Calculated =>
    Calc.details.volumeMultiplier =
      (IF Calc.reciprocal >= 50 THEN 24
       ELSE IF Calc.reciprocal >= 20 THEN 23
       ELSE IF Calc.reciprocal >= 10 THEN 21 ELSE 20)

\* C13 witness: exactly 50 reciprocal reviews get 1.20
C13_Witness_FiftyReciprocal ==
  /\ Calculated
  /\ Calc.reciprocal = 50
  /\ Calc.details.volumeMultiplier = 24

\* reviewsPerDay > k and accountAgeDays < d for the counts and the age of calc
CalcRateAbove(k) ==
  (Calc.given + Calc.received) * SecondsPerDay >
     k * (IF Calc.age > SecondsPerDay THEN Calc.age ELSE SecondsPerDay)
CalcAgeBelow(d) == Calc.age < d * SecondsPerDay

ClaimedRisk(hundredths) ==
  IF hundredths >= 7000 THEN "high"
  ELSE IF hundredths >= 4000 THEN "moderate" ELSE "low"

\* C16: the risk level stored with an entry is the one its stored score maps
\* to: high from 70, moderate from 40, low below
C16_StoredRiskMatchesStoredScore ==
  \A entry \in leaderboard :
    entry.risk_level = ClaimedRisk(entry.farming_score)

\* ------------------------------------------------ claims on archived records
WithoutArchived(stream) == SelectSeq(stream, LAMBDA r : r.archived = FALSE)

\* C17: archived records have no effect: the counts, the pair list and every
\* field of the score breakdown are those of the streams with the archived
\* records taken out
C17_ArchivedRecordsHaveNoEffect ==
  Analyzed /\ (\/ \E i \in DOMAIN givenReviews : givenReviews[i].archived
              \/ \E i \in DOMAIN receivedReviews : receivedReviews[i].archived) =>
    LET given == WithoutArchived(givenReviews)
        received == WithoutArchived(receivedReviews)
    IN /\ Latest.details = r4rScoreDetails(given, received, Latest.at)
       /\ Latest.stats = stats(given, received, Latest.at)
       /\ Latest.pairs = reviewPairs(given, received, userR4rScores)

\* an archived received record whose author was reviewed by a live given
\* record, next to an archived given record
C17_Witness_ArchivedCounterpart ==
  /\ Analyzed
  /\ \E j \in DOMAIN givenReviews : givenReviews[j].archived
  /\ \E i \in DOMAIN receivedReviews, j \in DOMAIN givenReviews :
        /\ receivedReviews[i].archived
        /\ ~givenReviews[j].archived
        /\ givenReviews[j].subject.username = receivedReviews[i].author.username
        /\ Rating(givenReviews[j]) = "positive"
        /\ Rating(receivedReviews[i]) = "positive"

\* --------------------------------------------- claims on unparsable timestamps
ValidTimestamps(stream) ==
  SelectSeq(stream, LAMBDA r : ~IsNaN(parseTimestamp(r.timestamp)))

\* C18: a record whose timestamp cannot be parsed counts toward the totals,
\* is never classified quick, and the account-age multiplier is the one of
\* the age estimated from the records whose timestamps are valid
C18_UnparsableTimestampLeftOutOfTiming ==
  Analyzed /\ Latest.stats.received > 0 =>
    LET all == ActiveGiven \o ActiveReceived
        valid == ValidTimestamps(all)
    IN /\ Latest.stats.given + Latest.stats.received = Len(all)
       /\ \A i \in QuickIndices(ActiveGiven, ActiveReceived) :
             LET m == FindReceived(ActiveReceived, ActiveGiven[i].subject.username)
             IN /\ ~IsNaN(parseTimestamp(ActiveGiven[i].timestamp))
                /\ ~IsNaN(parseTimestamp(ActiveReceived[m].timestamp))
       /\ valid # <<>> =>
             Latest.details.accountAgeMultiplier =
               accountAgeMultiplier(Len(all), accountAge(valid, Latest.at))

\* ------------------------------------------------ claims on unknown ratings
KnownRatings == {"positive", "neutral", "negative"}
UnknownRating(r) == Rating(r) \notin KnownRatings

\* C19: a record whose rating is missing or of an unrecognised shape never
\* makes a pair reciprocal, neither for the pairer nor for the scorer, it is
\* counted in the totals, and the analysis completes with a score
C19_UnknownRatingNeverReciprocal ==
  Analyzed =>
    /\ \A i \in DOMAIN Latest.pairs :
         LET p == Latest.pairs[i]
         IN \/ p.givenReview # <<>> /\ UnknownRating(p.givenReview[1])
            \/ p.receivedReview # <<>> /\ UnknownRating(p.receivedReview[1])
            => ~p.isReciprocal
    /\ \A i \in ReciprocalIndices(ActiveGiven, ActiveReceived) :
         LET m == FindReceived(ActiveReceived, ActiveGiven[i].subject.username)
         IN ~UnknownRating(ActiveGiven[i]) /\ ~UnknownRating(ActiveReceived[m])
    /\ Latest.stats.given =
         Cardinality({ i \in DOMAIN givenReviews : ~givenReviews[i].archived })
    /\ Latest.stats.received =
         Cardinality({ i \in DOMAIN receivedReviews : ~receivedReviews[i].archived })
    /\ Latest.details.finalScore \in 0..100

\* a pair whose given record is positive and whose received record has an
\* unrecognised rating, next to a received record without any rating
C19_Witness_UnknownMeetsPositive ==
  /\ Analyzed
  /\ \E i \in DOMAIN Latest.pairs :
       LET p == Latest.pairs[i]
       IN /\ p.givenReview # <<>> /\ p.receivedReview # <<>>
          /\ Rating(p.givenReview[1]) = "positive"
          /\ Rating(p.receivedReview[1]) \notin KnownRatings \cup {None}
          /\ ~p.isReciprocal
  /\ \E i \in DOMAIN ActiveReceived : Rating(ActiveReceived[i]) = None

\* ------------------------------------------------- claims on the pair order
\* C20: in the pair list every reciprocal pair comes before every pair that
\* is not reciprocal, and within each of the two groups the display names
\* never decrease
C20_ReciprocalFirstThenByName ==
  Analyzed =>
    \A i, j \in DOMAIN Latest.pairs :
      i < j =>
        LET a == Latest.pairs[i]
            b == Latest.pairs[j]
        IN /\ b.isReciprocal => a.isReciprocal
           /\ a.isReciprocal = b.isReciprocal =>
                CollationRank[a.name] <= CollationRank[b.name]

\* a reciprocal pair ahead of two others although its counterpart was not
\* the first one met in the given stream
C20_Witness_ReciprocalMovedAhead ==
  /\ Analyzed
  /\ Len(Latest.pairs) = 3
  /\ Latest.pairs[1].isReciprocal
  /\ ~Latest.pairs[2].isReciprocal
  /\ ~Latest.pairs[3].isReciprocal
  /\ ActiveGiven # <<>>
  /\ ActiveGiven[1].subject.username # Latest.pairs[1].username
  /\ CollationRank[Latest.pairs[1].name] > CollationRank[Latest.pairs[2].name]

\* ------------------------------------------- claims on the reported counts
\* C23: the quick reciprocations the scorer counts for the time penalty are
\* as many as the quick reciprocal pairs that are saved and displayed
C23_QuickCountsAgree ==
  Analyzed => Latest.details.quickReciprocations = QuickPairs(Latest.pairs)

\* C26: the table marks a pair R4R exactly when the pair is reciprocal, that
\* is when its two records are positive
C26_MarkedR4RIffReciprocal ==
  Analyzed =>
    \A i \in DOMAIN Latest.pairs :
      ReciprocalColumn(Latest.pairs[i]) = "r4r" <=> Latest.pairs[i].isReciprocal

\* C27: the reciprocal count of the result is the number of reciprocal
\* pairs, and so it is at most the number of counterparts
C27_ReciprocalCountIsReciprocalPairs ==
  Analyzed =>
    /\ Latest.stats.reciprocal =
         Cardinality({ i \in DOMAIN Latest.pairs : Latest.pairs[i].isReciprocal })
    /\ Latest.stats.reciprocal <= Len(Latest.pairs)

\* -------------------------------------------------- claims on the scheduler
\* C29: for each job id at most one handler execution is in progress at any
\* time, and a runJob call made while an execution for its id is in progress
\* invokes no handler and returns false.
C29_OneExecutionPerJob ==
  /\ \A id \in JobIds : Cardinality(Executions(scheduler, id)) <= 1
  /\ scheduler.last # <<>> /\ scheduler.last[1].inProgress =>
       /\ ~scheduler.last[1].invoked
       /\ scheduler.last[1].returned = "false"

\* ------------------------------------------------- claims on the batch request
\* the slots of limitedUserkeys that have produced their outcome, by kind
SlotsWithResult == { k \in DOMAIN batch.slots : batch.slots[k].pc = "saved" }
SlotsWithError == { k \in DOMAIN batch.slots : batch.slots[k].pc \in {"null", "threw"} }

\* every started userkey has at most one outcome so far, a results entry (with
\* its one save) or an errors entry; the response counts them all; a chunk
\* starts only when the chunk before it has settled
BatchOutcomesAccounted ==
  /\ Len(batch.results) = Cardinality(SlotsWithResult)
  /\ { batch.results[j].slot : j \in DOMAIN batch.results } = SlotsWithResult
  /\ SlotsWithResult \subseteq { k \in DOMAIN batch.slots : <<"batch", k>> \in sent }
  /\ Len(batch.errors) = Cardinality(SlotsWithError)
  /\ batch.processed = Len(batch.results)
  /\ \A k, l \in DOMAIN batch.slots :
       (k - 1) \div chunkSize < (l - 1) \div chunkSize /\ ~Settled(batch.slots[k])
         => batch.slots[l].pc = "waiting"
  /\ batch.pc = "responded" =>
       /\ \A k \in DOMAIN batch.slots : Settled(batch.slots[k])
       /\ batch.response[1].processed = Len(batch.response[1].results)
       /\ batch.response[1].processed + Len(batch.response[1].errors)
            = batch.response[1].totalRequested
       /\ batch.response[1].totalRequested = Len(batch.limitedUserkeys)

\* C30: a POST with a non-empty userkeys list processes at most
\* min(limit, 100) of the userkeys; each processed userkey contributes exactly
\* one outcome (a results entry with one save, or an errors entry); processed
\* equals the number of results, processed plus the number of errors equals
\* totalRequested; a chunk of at most chunkSize userkeys starts only after
\* the chunk before it has settled.
C30_BatchProcessesAtMostLimit ==
  /\ batch.pc \in {"running", "responded"} =>
       Len(batch.limitedUserkeys) <= Min(batch.limit, MaxLimit)
  /\ \A i \in DOMAIN batch.slots : Cardinality(ChunkOf(batch.slots, i)) <= chunkSize
  /\ BatchOutcomesAccounted

\* --------------------------------- claims on the batch calculator's algorithm
\* the slots of the batch request whose score has been calculated
SlotsCalculated == { k \in DOMAIN batch.slots : batch.slots[k].pc \in {"saving", "saved", "threw"} }

\* C25: on the same streams the batch calculator reports the reciprocal
\* count, the quick count, the score and the risk level of the interactive
\* scorer.
C25_BatchMatchesInteractive ==
  \A k \in SlotsCalculated :
    LET result == calculateUserR4rScore[batch.limitedUserkeys[k], now][1]
        island == interactiveOnUpstream[batch.limitedUserkeys[k], now]
    IN /\ result.reciprocalReviews = island.stats.reciprocal
       /\ result.quickReciprocations = island.details.quickReciprocations
       /\ result.r4rScore = 100 * island.details.finalScore
       /\ result.riskLevel = riskLevel(island.details.finalScore)

\* ------------------------------------------- claims on the island's instances
\* C28: every analysis posted to the sink under a subject's userkey carries
\* the counts and the score computed from that subject's own streams, also
\* when another subject is opened while the fetch or the delayed save of the
\* earlier subject is pending.
C28_SentEntryIsOfItsSubject ==
  \A p \in posts :
    LET up == UpstreamOf(p.userkey)
        st == stats(up.given, up.received, now)
    IN /\ p.reviewsGiven = st.given
       /\ p.reviewsReceived = st.received
       /\ p.reciprocalReviews = st.reciprocal
       /\ p.farmingScore = st.r4rScore
       /\ p.quickReciprocations = QuickPairs(reviewPairs(up.given, up.received, <<>>))

\* C28 witness: the analysis of an earlier subject is posted while the page
\* shows the loaded analysis of another subject
C28_Witness_SentAfterSubjectChanged ==
  \E p \in posts :
    /\ ~Mounted(p.run)
    /\ RunLoaded(Len(runs))
    /\ runs[Len(runs)].user.userkey # p.userkey
    /\ givenReviews = UpstreamOf(runs[Len(runs)].user.userkey).given
    /\ Len(givenReviews) # p.reviewsGiven

\* ------------------------------------------ claims on the counterpart lookup
\* a pair list without its r4rScore annotations
StripScore(pairs) == [i \in DOMAIN pairs |-> [pairs[i] EXCEPT !.r4rScore = Undefined]]

\* C21: the counts and the score of an analysis do not depend on the
\* counterpart lookup: whether it is pending, has failed or has returned
\* scores, the pair list differs from the one without any lookup in the
\* r4rScore annotation only, and what is posted to the sink is what the
\* streams alone give; the post does not wait for the lookup.
C21_ScoreIndependentOfLookup ==
  /\ \A r \in DOMAIN runs :
       LET cache == runs[r].userR4rScores
           with == reviewPairs(runs[r].givenReviews, runs[r].receivedReviews, cache)
           without == reviewPairs(runs[r].givenReviews, runs[r].receivedReviews, <<>>)
       IN /\ StripScore(with) = without
          /\ \A i \in DOMAIN with : with[i].r4rScore = CacheGet(cache, with[i].username)
          /\ QuickPairs(with) = QuickPairs(without)
  /\ \A p \in posts :
       LET st == stats(runs[p.run].givenReviews, runs[p.run].receivedReviews, now)
           without == reviewPairs(runs[p.run].givenReviews, runs[p.run].receivedReviews, <<>>)
       IN /\ p.reviewsGiven = st.given
          /\ p.reviewsReceived = st.received
          /\ p.reciprocalReviews = st.reciprocal
          /\ p.farmingScore = st.r4rScore
          /\ p.quickReciprocations = QuickPairs(without)

\* C21 witness: an analysis with quick pairs has been posted by an instance
\* whose lookup returned the score of one of its counterparts
C21_Witness_PostedWithLookupReturned ==
  \E p \in posts :
    LET cache == runs[p.run].userR4rScores
        with == reviewPairs(runs[p.run].givenReviews, runs[p.run].receivedReviews, cache)
    IN /\ p.run \notin lookups
       /\ p.quickReciprocations > 0
       /\ \E i \in DOMAIN with : with[i].isReciprocal /\ with[i].r4rScore # Undefined

\* the usernames that have an entry in the store
StoredUsernames(store) == { row.username : row \in store }

\* the stored score of a username that has an entry
StoredScore(store, username) ==
  (CHOOSE row \in store : row.username = username).farming_score

\* the annotations of the pairs of every instance follow its cache: unknown
\* for a counterpart the cache does not hold, else the cached score
AnnotationsFollowCache ==
  \A r \in DOMAIN runs :
    LET cache == runs[r].userR4rScores
        pairs == reviewPairs(runs[r].givenReviews, runs[r].receivedReviews, cache)
    IN \A i \in DOMAIN pairs :
         IF pairs[i].username \in DOMAIN cache
         THEN pairs[i].r4rScore = cache[pairs[i].username] /\ pairs[i].r4rScore # Undefined
         ELSE pairs[i].r4rScore = Undefined

\* a lookup that returns holds exactly the stored usernames, each with its
\* stored score, a score of 0 included
LookupKeepsStoredScores ==
  \A r \in lookups \ lookups' :
    LoadR4rScoresSettle(r, "ok") =>
      /\ DOMAIN runs'[r].userR4rScores = StoredUsernames(leaderboard)
      /\ \A u \in StoredUsernames(leaderboard) :
           runs'[r].userR4rScores[u] = StoredScore(leaderboard, u)

\* the high-risk counts an update leaves in the store count no counterpart
\* without an entry
UnknownNotCountedHighRisk ==
  \A o \in UpdateOutcomes :
    (leaderboard' # leaderboard /\ UpdateHighRiskR4rs(o)) =>
      \A row \in leaderboard' :
        LET given == NonArchived(UpstreamOf(row.userkey).given)
        IN row.high_risk_r4rs <=
             Cardinality({ i \in 1..Len(given) :
                             given[i].subject.username \in StoredUsernames(leaderboard) })

RowsOf(store, userkey) == { row \in store : row.userkey = userkey }

\* the userkey that slot k of the batch request saves under
SlotResult(k) == calculateUserR4rScore[batch.limitedUserkeys[k], now][1]

\* a save replaces the rows of its userkey by its entry
SaveStoresItsEntry ==
  /\ \A p \in posts :
       SaveAnalysis(p, "ok") =>
         RowsOf(leaderboard', p.userkey) = {SaveAnalysisEntry(p)}
  /\ \A k \in DOMAIN batch.slots :
       (batch.slots[k].pc = "saving" /\ BatchSave(k, "ok")) =>
         RowsOf(leaderboard', SlotResult(k).userkey) = {BatchEntry(SlotResult(k))}

\* the rows of a userkey change only by a save under that userkey, or, in
\* the column high_risk_r4rs alone, by the high-risk update
OnlySavesChangeRows ==
  \A u \in Usernames :
    RowsOf(leaderboard', UserkeyOf[u]) # RowsOf(leaderboard, UserkeyOf[u]) =>
      \/ \E p \in posts : p.userkey = UserkeyOf[u] /\ SaveAnalysis(p, "ok")
      \/ \E k \in DOMAIN batch.slots :
           /\ batch.slots[k].pc = "saving"
           /\ SlotResult(k).userkey = UserkeyOf[u]
           /\ BatchSave(k, "ok")
      \/ /\ \E o \in UpdateOutcomes : UpdateHighRiskR4rs(o)
         /\ { [row EXCEPT !.high_risk_r4rs = 0] : row \in RowsOf(leaderboard', UserkeyOf[u]) }
              = { [row EXCEPT !.high_risk_r4rs = 0] : row \in RowsOf(leaderboard, UserkeyOf[u]) }

\* C24: after any sequence of saves, by the island and by the batch
\* endpoint, the store holds at most one entry per subject userkey, and that
\* entry has the values of the most recent save under the userkey.
C24_OneEntryPerUserkey ==
  /\ [](\A r1, r2 \in leaderboard : r1.userkey = r2.userkey => r1 = r2)
  /\ [][SaveStoresItsEntry]_vars
  /\ [][OnlySavesChangeRows]_vars

\* C24 witness: the batch endpoint has saved an entry for a userkey, and the
\* store holds for that userkey the different entry of a later save by the
\* island
C24_Witness_IslandSaveReplacedBatchSave ==
  \E k \in DOMAIN batch.slots, r \in DOMAIN runs :
    /\ batch.slots[k].pc = "saved"
    /\ <<"run", r>> \in sent
    /\ runs[r].user.userkey = SlotResult(k).userkey
    /\ \E row \in leaderboard :
         /\ row.userkey = SlotResult(k).userkey
         /\ row.farming_score # BatchEntry(SlotResult(k)).farming_score
         /\ \A p \in posts : p.run # r

====
